---- MODULE Spec2Model ----
(***************************************************************************)
(* A model of the DHT11 single-wire driver (src/src/dht11/dht11.rs), its   *)
(* DWT cycle-counter delay (src/src/dht11/dwt_delay.rs) and the polling    *)
(* loop that calls it (src/src/main.rs).                                   *)
(*                                                                         *)
(* The driver is modelled at the granularity of one step per sample of the *)
(* line: every evaluation of pin.is_high() / pin.is_low() is one action,   *)
(* which also runs the straight-line code up to the next sample, timer or  *)
(* return.  The level the sample finds is the environment's choice.        *)
(***************************************************************************)
EXTENDS Integers, Sequences, FiniteSets

(***************************************************************************)
(* Program constants.                                                      *)
(***************************************************************************)
TIMEOUT_US == 100
HIGH_CAP == 200
THRESHOLD == 20
NUM_BYTES == 5
BITS_PER_BYTE == 8
CPU_FREQ_HZ == 168000000
HZ_PER_MHZ == 1000000
\* dht11.rs:42: Timer::after_millis(20), the start signal, in microseconds.
START_LOW_US == 20000
\* dht11.rs:46: Timer::after_micros(40), the release before listening.
RELEASE_US == 40
\* main.rs:49: Timer::after_secs(2), before the first read.
STABILISE_US == 2000000
\* main.rs:66: Timer::after_secs(2), after every read.
PERIOD_US == 2000000
TENTH_MANT == 13421773
TENTH_EXP == 27

(***************************************************************************)
(* Bounds of the model.                                                    *)
(***************************************************************************)
MaxReads == 2
MaxSlack == 2
LiveReads == 2
SlowReads == 1

(***************************************************************************)
(* Arithmetic helpers.                                                     *)
(***************************************************************************)
RECURSIVE Pow2(_)
Pow2(n) == IF n = 0 THEN 1 ELSE 2 * Pow2(n - 1)

\* Number of significant bits of x (0 for x = 0).
RECURSIVE BitLen(_)
BitLen(x) == IF x = 0 THEN 0 ELSE 1 + BitLen(x \div 2)

\* u8 addition with wraparound.
wrapping_add(a, b) == (a + b) % 256

\* Bit n of the byte x.
BitOf(x, n) == (x \div Pow2(n)) % 2

(***************************************************************************)
(* IEEE-754 binary32 values, as far as the parse step needs them.  A       *)
(* finite non-negative f32 is written <<m, e>> and stands for m * 2^(-e),  *)
(* with 2^23 <= m < 2^24 (zero is <<0, 0>>).  All operations round to      *)
(* nearest, ties to even, as the hardware does.  Intermediate products are *)
(* kept in two limbs so that no integer exceeds 31 bits.                   *)
(***************************************************************************)
F32Zero == <<0, 0>>

\* x / 2^s rounded to nearest, ties to even.
RoundShift(x, s) ==
  IF s = 0 THEN x
  ELSE LET q == x \div Pow2(s)
           r == x % Pow2(s)
           half == Pow2(s - 1)
       IN  IF r > half \/ (r = half /\ q % 2 = 1) THEN q + 1 ELSE q

\* The integer x, 0 < x < 2^24, scaled by 2^(-e), as a normalised f32.
F32Norm(x, e) ==
  IF x = 0 THEN F32Zero
  ELSE LET up == 24 - BitLen(x) IN <<x * Pow2(up), e + up>>

\* `b as f32` for a u8: exact.
F32FromU8(b) == F32Norm(b, 0)

\* The literal 0.1 as an f32: 13421773 * 2^(-27).
F32Tenth == <<TENTH_MANT, TENTH_EXP>>

\* (b as f32) * c, for a u8 b and an f32 c.
F32MulU8(b, c) ==
  LET ch == c[1] \div 256
      cl == c[1] % 256
      H  == b * ch + (b * cl) \div 256
      L  == (b * cl) % 256
      s  == IF BitLen(H) > 16 THEN BitLen(H) - 16 ELSE 0
  IN  IF s = 0 THEN F32Norm(H * 256 + L, c[2])
      ELSE LET q0 == H * Pow2(8 - s) + L \div Pow2(s)
               r  == L % Pow2(s)
               half == Pow2(s - 1)
               q  == IF r > half \/ (r = half /\ q0 % 2 = 1) THEN q0 + 1 ELSE q0
           IN  IF q = Pow2(24) THEN <<Pow2(23), c[2] - s - 1>>
               ELSE <<q, c[2] - s>>

\* (b as f32) + f, for a u8 b and an f32 f < 2^8.
F32AddU8(b, f) ==
  IF f[1] = 0 THEN F32FromU8(b)
  ELSE LET I == b + f[1] \div Pow2(f[2])
           F == f[1] % Pow2(f[2])
       IN  IF I = 0 THEN f
           ELSE LET fb == 24 - BitLen(I)
                IN  IF f[2] <= fb
                    THEN <<I * Pow2(fb) + F * Pow2(fb - f[2]), fb>>
                    ELSE LET m == I * Pow2(fb) + RoundShift(F, f[2] - fb)
                         IN  IF m = Pow2(24) THEN <<Pow2(23), fb - 1>>
                             ELSE <<m, fb>>

\* The integer byte alone, the fraction byte dropped.
ParseField_integer(int_byte, frac_byte) == F32FromU8(int_byte)

\* dht11.rs:122-123: data[i] as f32 + (data[i+1] as f32) * 0.1
ParseField(int_byte, frac_byte) ==
  F32AddU8(int_byte, F32MulU8(frac_byte, F32Tenth))

(***************************************************************************)
(* The sensor.  At the start of each read the environment picks the frame  *)
(* the sensor is going to transmit.  The timing of every edge is free: a   *)
(* sample in an edge wait may find either level.  In the pulse measurement *)
(* the line follows the frame's bit (a 0 is a pulse the driver measures as *)
(* at most THRESHOLD, a 1 is a longer pulse) or breaks: a line that breaks *)
(* stays at the level it broke at (stuck) for the rest of the read.        *)
(***************************************************************************)
Payloads ==
  { <<50, 0, 24, 0>>, <<255, 255, 255, 255>>, <<0, 0, 0, 0>>, <<37, 9, 129, 13>> }

Sum4(p) == p[1] + p[2] + p[3] + p[4]

\* Each payload with its checksum, and with two wrong checksums.
Frames ==
  { <<p[1], p[2], p[3], p[4], (Sum4(p) + d) % 256>> : p \in Payloads, d \in {0, 1, 128} }

\* The frames of the specification with fairness: 50 % and 24 degrees, with
\* the right checksum and with a wrong one.
LiveFrames == { <<50, 0, 24, 0, 74>>, <<50, 0, 24, 0, 75>> }

VARIABLES
  pc,            \* where the program is: main.rs:49-66 and dht11.rs:38-129
  result,        \* what read has returned: "none" while it has not
  reading,       \* <<>>, or <<r>> for the DhtReading r of an Ok result
  pin_mode,      \* "output" or "input" (pull-up)
  pin_out,       \* the level last written with set_low / set_high
  line,          \* the level the last sample of the line found
  count,         \* wait_for_low / wait_for_high: count
  high_time,     \* read: high_time
  byte_idx,      \* read: index of `byte` in data.iter_mut()
  bit,           \* read: bit
  data,          \* read: data
  timer,         \* microseconds of the Timer::after being awaited, 0 when none is
  pulses,        \* the bits the pulses of this read were classified as, in wire order
  delays,        \* calls of delay_1us made by the current loop
  starts,        \* start signals (set_low) emitted so far
  reads,         \* calls of read so far
  frame,         \* sensor: the frame being transmitted
  stuck,         \* sensor: "none", or the level the line is stuck at
  cycles_per_us, \* DwtDelay: cycles_per_us
  dwt_pc,        \* delay_1us: "idle", "polling", "done"
  dwt_start,     \* delay_1us: start, a u32 as <<high half, low half>>
  dwt_now,       \* the DWT cycle counter, a u32 as <<high half, low half>>
  dwt_elapsed,   \* delay_1us: elapsed, as computed by the last pass of the loop
  dwt_real       \* cycles that have really passed since start was read

drv == <<pc, result, reading, pin_mode, pin_out, line, count, high_time,
         byte_idx, bit, data, pulses, delays, starts, reads, frame, stuck,
         timer>>
dwt == <<cycles_per_us, dwt_pc, dwt_start, dwt_now, dwt_elapsed, dwt_real>>
vars == <<drv, dwt>>

ZeroData == [i \in 1..NUM_BYTES |-> 0]
NoReading == <<>>
NoFrame == ZeroData

\* The quotient rounded up instead of down.
DwtDelay_new_ceiling(cpu_freq_hz) ==
  (cpu_freq_hz + HZ_PER_MHZ - 1) \div HZ_PER_MHZ

(***************************************************************************)
(* DwtDelay::new                                                           *)
(***************************************************************************)
DwtDelay_new(cpu_freq_hz) == cpu_freq_hz \div HZ_PER_MHZ

(***************************************************************************)
(* The levels the environment lets a sample find.                          *)
(***************************************************************************)
Levels == IF stuck = "high" THEN {1} ELSE IF stuck = "low" THEN {0} ELSE {0, 1}

\* The bit the sensor is transmitting now.
FrameBit == BitOf(frame[byte_idx + 1], bit)

\* What a sample in the measurement loop does to the sensor: a level that
\* contradicts the bit being sent is a break of the line.
StuckAfter(s) ==
  IF stuck # "none" THEN stuck
  ELSE IF s = 1 /\ FrameBit = 0 /\ high_time >= THRESHOLD THEN "high"
  ELSE IF s = 0 /\ FrameBit = 1 /\ high_time <= THRESHOLD THEN "low"
  ELSE "none"

(***************************************************************************)
(* Dht11::new and the state in which main awaits the stabilisation timer.  *)
(***************************************************************************)
Init ==
  /\ pc = "stabilise"
  /\ result = "none"
  /\ reading = NoReading
  /\ pin_mode = "output"
  /\ pin_out = 1
  /\ line = 1
  /\ count = 0
  /\ high_time = 0
  /\ byte_idx = 0
  /\ bit = BITS_PER_BYTE - 1
  /\ data = ZeroData
  /\ pulses = <<>>
  /\ delays = 0
  /\ starts = 0
  /\ reads = 0
  /\ frame = NoFrame
  /\ stuck = "none"
  /\ timer = STABILISE_US
  /\ cycles_per_us = DwtDelay_new(CPU_FREQ_HZ)
  /\ dwt_pc = "idle"
  /\ dwt_start = <<0, 0>>
  /\ dwt_elapsed = <<0, 0>>
  /\ dwt_now = <<0, 0>>
  /\ dwt_real = 0

(***************************************************************************)
(* main: the polling loop.                                                 *)
(***************************************************************************)
\* main.rs:49: the stabilisation timer fires.
MainStabilised ==
  /\ pc = "stabilise"
  /\ pc' = "loop_top"
  /\ timer' = 0
  /\ UNCHANGED <<result, reading, pin_mode, pin_out, line, count, high_time,
                 byte_idx, bit, data, delays, starts, reads, frame, stuck, pulses, dwt>>

\* A read that sends its start signal without making the line an output
\* first, trusting the mode the call before left.
ReadCallOf_keeps_mode(F, n) ==
  /\ pc = "loop_top"
  /\ reads < n
  /\ reads' = reads + 1
  /\ frame' \in F
  /\ stuck' = "none"
  /\ pin_out' = 0
  /\ starts' = starts + 1
  /\ pc' = "hold_low"
  /\ timer' = START_LOW_US
  /\ UNCHANGED <<result, reading, pin_mode, line, count, high_time, byte_idx, bit,
                 data, delays, pulses, dwt>>

\* main.rs:55 and dht11.rs:40-42: read is called, drives the line low as an
\* output and awaits the 20 ms timer.  The sensor picks its frame among F;
\* the loop is followed for n reads.
ReadCallOf(F, n) ==
  /\ pc = "loop_top"
  /\ reads < n
  /\ reads' = reads + 1
  /\ frame' \in F
  /\ stuck' = "none"
  /\ pin_mode' = "output"
  /\ pin_out' = 0
  /\ starts' = starts + 1
  /\ pc' = "hold_low"
  /\ timer' = START_LOW_US
  /\ UNCHANGED <<result, reading, line, count, high_time, byte_idx, bit, data,
                 delays, pulses, dwt>>

ReadCall == ReadCallOf(Frames, MaxReads)

\* The line handed to the sensor as soon as the 20 ms are over, without the
\* release to high and its 40 us.
ReadRelease_no_hold ==
  /\ pc = "hold_low"
  /\ pin_mode' = "input"
  /\ count' = 0
  /\ pc' = "ack_low"
  /\ timer' = 0
  /\ UNCHANGED <<result, reading, pin_out, line, high_time, byte_idx, bit, data,
                 delays, starts, reads, frame, stuck, pulses, dwt>>

\* dht11.rs:45-46: the 20 ms timer fires; the line is set high and the 40 us
\* timer awaited.
ReadRelease ==
  /\ pc = "hold_low"
  /\ pin_out' = 1
  /\ pc' = "hold_high"
  /\ timer' = RELEASE_US
  /\ UNCHANGED <<result, reading, pin_mode, line, count, high_time, byte_idx,
                 bit, data, delays, starts, reads, frame, stuck, pulses, dwt>>

\* The first wait entered with the line still an output.
ReadListen_stays_output ==
  /\ pc = "hold_high"
  /\ count' = 0
  /\ pc' = "ack_low"
  /\ timer' = 0
  /\ UNCHANGED <<result, reading, pin_mode, pin_out, line, high_time, byte_idx,
                 bit, data, delays, starts, reads, frame, stuck, pulses, dwt>>

\* dht11.rs:49-52: the 40 us timer fires; the line becomes an input with
\* pull-up and the first wait_for_low is entered.
ReadListen ==
  /\ pc = "hold_high"
  /\ pin_mode' = "input"
  /\ count' = 0
  /\ pc' = "ack_low"
  /\ timer' = 0
  /\ UNCHANGED <<result, reading, pin_out, line, high_time, byte_idx, bit, data,
                 delays, starts, reads, frame, stuck, pulses, dwt>>

(***************************************************************************)
(* wait_for_low / wait_for_high                                            *)
(***************************************************************************)
WaitPcs == {"ack_low", "ack_high", "data_low", "bit_high", "bit_low"}

\* The level each wait returns Ok at: wait_for_low spins while is_high(),
\* wait_for_high while is_low().
Wanted(p) == IF p \in {"ack_low", "data_low", "bit_low"} THEN 0 ELSE 1

\* A wait that gives up only after twice its budget.
TimedOut_doubled(c, timeout_us) == c > 2 * timeout_us

\* The budget test with >= for >.
TimedOut_inclusive(c, timeout_us) == c >= timeout_us

\* dht11.rs:135 and 147
TimedOut(c, timeout_us) == c > timeout_us

\* Delay calls made by the loop so far, the poll at hand being its first or not.
DelaysSoFar(first) == IF first THEN 0 ELSE delays

\* A wait that starts its count afresh on every pass of the loop.
WaitSpin_recount ==
  /\ pc \in WaitPcs
  /\ result = "none"
  /\ \E s \in Levels :
       /\ s # Wanted(pc)
       /\ line' = s
  /\ count' = 1
  /\ delays' = 1
  /\ high_time' = 0
  /\ UNCHANGED <<pc, result, reading, pin_mode, pin_out, byte_idx, bit, data,
                 starts, reads, frame, stuck, pulses, timer,
                 dwt>>

\* The sample finds the wrong level and the budget is not spent: one delay.
WaitSpinDrv ==
  /\ pc \in WaitPcs
  /\ result = "none"
  /\ \E s \in Levels :
       /\ s # Wanted(pc)
       /\ line' = s
  /\ ~TimedOut(count + 1, TIMEOUT_US)
  /\ count' = count + 1
  /\ delays' = DelaysSoFar(count = 0) + 1
  /\ high_time' = 0
  /\ UNCHANGED <<pc, result, reading, pin_mode, pin_out, byte_idx, bit, data,
                 starts, reads, frame, stuck, pulses, timer>>

\* The same pass with delay_1us taken as one step that returns.
WaitSpin == WaitSpinDrv /\ UNCHANGED dwt

\* A timeout of the acknowledge that sends the start signal once more.
WaitTimeout_retry ==
  /\ pc \in WaitPcs
  /\ result = "none"
  /\ \E s \in Levels :
       /\ s # Wanted(pc)
       /\ line' = s
  /\ count + 1 > TIMEOUT_US
  /\ high_time' = 0
  /\ IF pc = "ack_low" /\ starts < 2 * MaxReads
     THEN /\ pc' = "hold_low"
          /\ pin_mode' = "output"
          /\ pin_out' = 0
          /\ starts' = starts + 1
          /\ count' = 0
          /\ delays' = 0
          /\ UNCHANGED result
     ELSE /\ result' = "Timeout"
          /\ count' = count + 1
          /\ UNCHANGED <<pc, pin_mode, pin_out, starts, delays>>
  /\ UNCHANGED <<reading, byte_idx, bit, data, reads, frame, stuck, pulses, timer,
                 dwt>>

\* A timeout that makes the line an output again before it returns.
WaitTimeout_as_output ==
  /\ pc \in WaitPcs
  /\ result = "none"
  /\ \E s \in Levels :
       /\ s # Wanted(pc)
       /\ line' = s
  /\ count + 1 > TIMEOUT_US
  /\ count' = count + 1
  /\ delays' = delays
  /\ high_time' = 0
  /\ pin_mode' = "output"
  /\ result' = "Timeout"
  /\ UNCHANGED <<pc, reading, pin_out, byte_idx, bit, data, starts, reads, frame,
                 stuck, pulses, timer, dwt>>

\* A timeout that parks the line before it returns.
WaitTimeout_parking ==
  /\ pc \in WaitPcs
  /\ result = "none"
  /\ \E s \in Levels :
       /\ s # Wanted(pc)
       /\ line' = s
  /\ count + 1 > TIMEOUT_US
  /\ count' = count + 1
  /\ delays' = delays
  /\ high_time' = 0
  /\ pin_mode' = "output"
  /\ pin_out' = 1
  /\ result' = "Timeout"
  /\ UNCHANGED <<pc, reading, byte_idx, bit, data, starts, reads, frame, stuck,
                 pulses, timer,
                 dwt>>

\* The sample finds the wrong level and the budget is spent: Err(Timeout).
WaitTimeout ==
  /\ pc \in WaitPcs
  /\ result = "none"
  /\ \E s \in Levels :
       /\ s # Wanted(pc)
       /\ line' = s
  /\ TimedOut(count + 1, TIMEOUT_US)
  /\ count' = count + 1
  /\ delays' = DelaysSoFar(count = 0)
  /\ high_time' = 0
  /\ result' = "Timeout"
  /\ UNCHANGED <<pc, reading, pin_mode, pin_out, byte_idx, bit, data,
                 starts, reads, frame, stuck, pulses, timer,
                 dwt>>

\* dht11.rs:55-68 and 92-94: where read goes on after a wait returned Ok.
AfterWait ==
  CASE pc = "ack_low"  -> /\ pc' = "ack_high"
                          /\ UNCHANGED <<byte_idx, bit, data>>
    [] pc = "ack_high" -> /\ pc' = "data_low"
                          /\ UNCHANGED <<byte_idx, bit, data>>
    [] pc = "data_low" -> /\ pc' = "bit_high"
                          /\ data' = ZeroData
                          /\ byte_idx' = 0
                          /\ bit' = BITS_PER_BYTE - 1
    [] pc = "bit_high" -> /\ pc' = "measure"
                          /\ UNCHANGED <<byte_idx, bit, data>>
    [] pc = "bit_low"  ->
         IF bit > 0
         THEN /\ pc' = "bit_high"
              /\ bit' = bit - 1
              /\ UNCHANGED <<byte_idx, data>>
         ELSE IF byte_idx + 1 < NUM_BYTES
         THEN /\ pc' = "bit_high"
              /\ bit' = BITS_PER_BYTE - 1
              /\ byte_idx' = byte_idx + 1
              /\ UNCHANGED data
         ELSE /\ pc' = "park"
              /\ UNCHANGED <<byte_idx, bit, data>>

\* A wait that goes on at any level it samples, the level waited for or not.
WaitOk_any_level ==
  /\ pc \in WaitPcs
  /\ result = "none"
  /\ line' \in Levels
  /\ delays' = DelaysSoFar(count = 0)
  /\ count' = 0
  /\ high_time' = 0
  /\ AfterWait
  /\ UNCHANGED <<result, reading, pin_mode, pin_out, starts, reads, frame,
                 stuck, pulses, timer, dwt>>

\* The sample finds the level waited for: Ok(()).
WaitOk ==
  /\ pc \in WaitPcs
  /\ result = "none"
  /\ line' = Wanted(pc)
  /\ line' \in Levels
  /\ delays' = DelaysSoFar(count = 0)
  /\ count' = 0
  /\ high_time' = 0
  /\ AfterWait
  /\ UNCHANGED <<result, reading, pin_mode, pin_out, starts, reads, frame,
                 stuck, pulses, timer,
                 dwt>>

(***************************************************************************)
(* read: the measurement of one high pulse, dht11.rs:72-89                 *)
(***************************************************************************)
\* The loop condition without its cap.
MeasureGoesOn_uncapped(s, h) == s = 1

\* dht11.rs:73: the loop condition.
MeasureGoesOn(s, h) == s = 1 /\ h < HIGH_CAP

\* The threshold with >= for >.
Classify_inclusive(h) == IF h >= THRESHOLD THEN 1 ELSE 0

\* dht11.rs:87: the bit a high time decodes to.
Classify(h) == IF h > THRESHOLD THEN 1 ELSE 0

\* The bits of a byte filled from its least significant end.
Accumulate_lsb_first(d, i, n, b) ==
  IF b = 1 /\ BitOf(d[i + 1], BITS_PER_BYTE - 1 - n) = 0
  THEN [d EXCEPT ![i + 1] = d[i + 1] + Pow2(BITS_PER_BYTE - 1 - n)]
  ELSE d

\* dht11.rs:88: *byte |= 1 << bit, when the decoded bit is 1.
Accumulate(d, i, n, b) ==
  IF b = 1 /\ BitOf(d[i + 1], n) = 0
  THEN [d EXCEPT ![i + 1] = d[i + 1] + Pow2(n)]
  ELSE d

\* The line is high and the cap not reached: one delay, high_time += 1.
MeasureSpinDrv ==
  /\ pc = "measure"
  /\ \E s \in Levels :
       /\ MeasureGoesOn(s, high_time)
       /\ line' = s
       /\ stuck' = StuckAfter(s)
  /\ high_time' = high_time + 1
  /\ delays' = DelaysSoFar(high_time = 0) + 1
  /\ UNCHANGED <<pc, result, reading, pin_mode, pin_out, count, byte_idx, bit,
                 data, starts, reads, frame, pulses, timer>>

\* The same pass with delay_1us taken as one step that returns.
MeasureSpin == MeasureSpinDrv /\ UNCHANGED dwt

\* The loop ends; the bit is classified and stored, and wait_for_low entered.
MeasureEnd ==
  /\ pc = "measure"
  /\ \E s \in Levels :
       /\ ~MeasureGoesOn(s, high_time)
       /\ line' = s
       /\ stuck' = StuckAfter(s)
  /\ data' = Accumulate(data, byte_idx, bit, Classify(high_time))
  /\ pulses' = Append(pulses, Classify(high_time))
  /\ delays' = DelaysSoFar(high_time = 0)
  /\ count' = 0
  /\ pc' = "bit_low"
  /\ UNCHANGED <<result, reading, pin_mode, pin_out, high_time, byte_idx, bit,
                 starts, reads, frame, timer, dwt>>

(***************************************************************************)
(* read: parking, checksum and parse, dht11.rs:96-128                      *)
(***************************************************************************)
\* Parking that sets the level and leaves the line an input.
Park_level_only ==
  /\ pc = "park"
  /\ pin_out' = 1
  /\ pc' = "checksum"
  /\ UNCHANGED <<result, reading, pin_mode, line, count, high_time, byte_idx,
                 bit, data, delays, starts, reads, frame, stuck, pulses, timer,
                 dwt>>

\* dht11.rs:97-98
Park ==
  /\ pc = "park"
  /\ pin_mode' = "output"
  /\ pin_out' = 1
  /\ pc' = "checksum"
  /\ UNCHANGED <<result, reading, line, count, high_time, byte_idx, bit, data,
                 delays, starts, reads, frame, stuck, pulses, timer,
                 dwt>>

\* dht11.rs:110-113
Checksum(d) ==
  wrapping_add(wrapping_add(wrapping_add(d[1], d[2]), d[3]), d[4])

\* The comparison with > for !=.
ChecksumFails_greater(d) == Checksum(d) > d[5]

\* dht11.rs:117
ChecksumFails(d) == Checksum(d) # d[5]

\* dht11.rs:122-128
Parse(d) ==
  [humidity |-> ParseField(d[1], d[2]), temperature |-> ParseField(d[3], d[4])]

\* A checksum mismatch reported as a Timeout.
ReadChecksumError_as_timeout ==
  /\ pc = "checksum"
  /\ result = "none"
  /\ ChecksumFails(data)
  /\ result' = "Timeout"
  /\ UNCHANGED <<pc, reading, pin_mode, pin_out, line, count, high_time,
                 byte_idx, bit, data, delays, starts, reads, frame, stuck, pulses,
                 timer, dwt>>

\* dht11.rs:117-119: Err(ChecksumError)
ReadChecksumError ==
  /\ pc = "checksum"
  /\ result = "none"
  /\ ChecksumFails(data)
  /\ result' = "ChecksumError"
  /\ UNCHANGED <<pc, reading, pin_mode, pin_out, line, count, high_time,
                 byte_idx, bit, data, delays, starts, reads, frame, stuck, pulses, timer,
                 dwt>>

\* dht11.rs:121-128: Ok(DhtReading)
ReadOk ==
  /\ pc = "checksum"
  /\ result = "none"
  /\ ~ChecksumFails(data)
  /\ result' = "Ok"
  /\ reading' = <<Parse(data)>>
  /\ UNCHANGED <<pc, pin_mode, pin_out, line, count, high_time, byte_idx, bit,
                 data, delays, starts, reads, frame, stuck, pulses, timer,
                 dwt>>

\* A loop that reads again at once when a read has failed.
MainMatch_retry_at_once ==
  /\ result # "none"
  /\ pc' = IF result = "Ok" THEN "sleep" ELSE "loop_top"
  /\ timer' = IF result = "Ok" THEN PERIOD_US ELSE 0
  /\ result' = "none"
  /\ reading' = NoReading
  /\ count' = 0
  /\ high_time' = 0
  /\ byte_idx' = 0
  /\ bit' = BITS_PER_BYTE - 1
  /\ data' = ZeroData
  /\ pulses' = <<>>
  /\ delays' = 0
  /\ frame' = NoFrame
  /\ stuck' = "none"
  /\ UNCHANGED <<pin_mode, pin_out, line, starts, reads, dwt>>

(***************************************************************************)
(* main: the result is logged, read's locals are gone and the 2 s timer is *)
(* awaited (main.rs:55-66); then the loop goes round (main.rs:51).         *)
(***************************************************************************)
MainMatch ==
  /\ result # "none"
  /\ pc' = "sleep"
  /\ timer' = PERIOD_US
  /\ result' = "none"
  /\ reading' = NoReading
  /\ count' = 0
  /\ high_time' = 0
  /\ byte_idx' = 0
  /\ bit' = BITS_PER_BYTE - 1
  /\ data' = ZeroData
  /\ pulses' = <<>>
  /\ delays' = 0
  /\ frame' = NoFrame
  /\ stuck' = "none"
  /\ UNCHANGED <<pin_mode, pin_out, line, starts, reads, dwt>>

MainWake ==
  /\ pc = "sleep"
  /\ pc' = "loop_top"
  /\ timer' = 0
  /\ UNCHANGED <<result, reading, pin_mode, pin_out, line, count, high_time,
                 byte_idx, bit, data, delays, starts, reads, frame, stuck, pulses, dwt>>

Next ==
  \/ MainStabilised
  \/ ReadCall
  \/ ReadRelease
  \/ ReadListen
  \/ WaitSpin
  \/ WaitTimeout
  \/ WaitOk
  \/ MeasureSpin
  \/ MeasureEnd
  \/ Park
  \/ ReadChecksumError
  \/ ReadOk
  \/ MainMatch
  \/ MainWake

Spec == Init /\ [][Next]_vars

\* The processor keeps executing, the timers fire and delay_1us returns: a
\* step that can be taken is taken.
ReadCallLive == ReadCallOf(LiveFrames, LiveReads)

NextLive ==
  \/ MainStabilised
  \/ ReadCallLive
  \/ ReadRelease
  \/ ReadListen
  \/ WaitSpin
  \/ WaitTimeout
  \/ WaitOk
  \/ MeasureSpin
  \/ MeasureEnd
  \/ Park
  \/ ReadChecksumError
  \/ ReadOk
  \/ MainMatch
  \/ MainWake

LiveSpec == Init /\ [][NextLive]_vars /\ WF_vars(NextLive)

(***************************************************************************)
(* DwtDelay::delay_1us, dwt_delay.rs:18-28.  The DWT cycle counter is a    *)
(* 32-bit register; a u32 is written <<h, l>> and stands for h * 2^16 + l. *)
(* The counter ticks on its own (DwtTick); the loop reads it (DelayPoll).  *)
(***************************************************************************)
HALF == 65536

U32Max == <<HALF - 1, HALF - 1>>

\* The counter one cycle later: it wraps from 2^32 - 1 to 0.
U32Succ(a) ==
  IF a[2] + 1 < HALF THEN <<a[1], a[2] + 1>>
  ELSE <<(a[1] + 1) % HALF, 0>>

\* u32::wrapping_sub
u32_wrapping_sub(a, b) ==
  LET borrow == IF a[2] < b[2] THEN 1 ELSE 0
  IN  <<(a[1] - b[1] - borrow + HALF) % HALF, (a[2] - b[2] + HALF) % HALF>>

\* a >= c for a u32 a and a number c < 2^16
U32Ge(a, c) == a[1] > 0 \/ a[2] >= c

\* u32::saturating_sub
u32_saturating_sub(a, b) ==
  IF a[1] < b[1] \/ (a[1] = b[1] /\ a[2] < b[2]) THEN <<0, 0>>
  ELSE u32_wrapping_sub(a, b)

\* The subtraction without wraparound.
Elapsed_saturating(current, start) == u32_saturating_sub(current, start)

\* dwt_delay.rs:23
Elapsed(current, start) == u32_wrapping_sub(current, start)

\* dwt_delay.rs:24
DelayOver(elapsed, cycles) == U32Ge(elapsed, cycles)

\* Clock frequencies the delay is constructed with.
Freqs == {CPU_FREQ_HZ, HZ_PER_MHZ, HZ_PER_MHZ - 1}

\* Counter values at which delay_1us is called: far from the wrap, and so
\* close to it that the counter wraps during the call.
DwtStarts ==
  {<<0, 0>>, <<0, HALF - 1>>, <<HALF \div 2, HALF - 2>>, U32Max}
    \cup {<<HALF - 1, HALF - 1 - k>> : k \in {1, 100, 167, 168, 169}}

InitDelay ==
  /\ pc = "stabilise"
  /\ result = "none"
  /\ reading = NoReading
  /\ pin_mode = "output"
  /\ pin_out = 1
  /\ line = 1
  /\ count = 0
  /\ high_time = 0
  /\ byte_idx = 0
  /\ bit = BITS_PER_BYTE - 1
  /\ data = ZeroData
  /\ pulses = <<>>
  /\ delays = 0
  /\ starts = 0
  /\ reads = 0
  /\ frame = NoFrame
  /\ stuck = "none"
  /\ timer = STABILISE_US
  /\ cycles_per_us \in {DwtDelay_new(f) : f \in Freqs}
  /\ dwt_pc = "idle"
  /\ dwt_start = <<0, 0>>
  /\ dwt_elapsed = <<0, 0>>
  /\ dwt_now \in DwtStarts
  /\ dwt_real = 0

\* dwt_delay.rs:19: let start = DWT::cycle_count()
DelayCall ==
  /\ dwt_pc = "idle"
  /\ dwt_start' = dwt_now
  /\ dwt_real' = 0
  /\ dwt_pc' = "polling"
  /\ UNCHANGED <<drv, cycles_per_us, dwt_now, dwt_elapsed>>

\* The counter advances by one cycle while delay_1us runs.
DwtTick ==
  /\ dwt_pc = "polling"
  /\ dwt_real < cycles_per_us + MaxSlack
  /\ dwt_now' = U32Succ(dwt_now)
  /\ dwt_real' = dwt_real + 1
  /\ UNCHANGED <<drv, cycles_per_us, dwt_pc, dwt_start, dwt_elapsed>>

\* dwt_delay.rs:22-26: one pass of the loop.
DelayPoll ==
  /\ dwt_pc = "polling"
  /\ dwt_elapsed' = Elapsed(dwt_now, dwt_start)
  /\ dwt_pc' = IF DelayOver(dwt_elapsed', cycles_per_us) THEN "done" ELSE "polling"
  /\ UNCHANGED <<drv, cycles_per_us, dwt_start, dwt_now, dwt_real>>

NextDelay ==
  \/ DelayCall
  \/ DwtTick
  \/ DelayPoll

SpecDelay == InitDelay /\ [][NextDelay]_vars

(***************************************************************************)
(* Properties.                                                             *)
(***************************************************************************)
ValidFrame(f) == f[5] = Sum4(f) % 256

\* read has run to its end, every edge came in time and the line followed
\* the frame all the way.
Delivered == pc = "checksum" /\ result # "none" /\ stuck = "none"

\* 10 * f - t for an f32 f = <<m, e>> and a number of tenths t, in units of
\* 2^(-e).  With f = ip + F / 2^e the difference is A + 10 * F / 2^e, where
\* A = 10 * (ip - t div 10) - t mod 10; it is below 1 in size only for A in
\* -10..0, and only then is it formed (as a number of at most 31 bits).
TenthsWhole(f, t) == 10 * ((f[1] \div Pow2(f[2])) - (t \div 10)) - (t % 10)

TenthsDiff(f, t) == TenthsWhole(f, t) * Pow2(f[2]) + 10 * (f[1] % Pow2(f[2]))

Abs(x) == IF x < 0 THEN 0 - x ELSE x

\* 10 * f = t, exactly
TenthsExact(f, t) == TenthsWhole(f, t) \in -10..0 /\ TenthsDiff(f, t) = 0

\* | 10 * f - t | <= 2^(-13)
TenthsClose(f, t) ==
  /\ TenthsWhole(f, t) \in -10..0
  /\ Abs(TenthsDiff(f, t)) <= Pow2(f[2]) \div Pow2(13)

\* C1, as stated: a frame delivered in time with b4 = (b0+b1+b2+b3) mod 256
\* gives Ok with 10 * humidity = 10*b0 + b1 and 10 * temperature = 10*b2 + b3.
C1_AsStated ==
  (Delivered /\ ValidFrame(frame)) =>
    /\ result = "Ok"
    /\ Len(reading) = 1
    /\ TenthsExact(reading[1].humidity, 10 * frame[1] + frame[2])
    /\ TenthsExact(reading[1].temperature, 10 * frame[3] + frame[4])

\* C1, amended: such a frame gives Ok with humidity and temperature the f32
\* results of b0 + b1 * 0.1 and b2 + b3 * 0.1; 10 * humidity and
\* 10 * temperature are within 2^(-13) of 10*b0 + b1 and 10*b2 + b3, and
\* equal to them where the fraction byte is a multiple of 5.
C1_ReadingOfValidFrame ==
  (Delivered /\ ValidFrame(frame)) =>
    /\ result = "Ok"
    /\ Len(reading) = 1
    /\ TenthsClose(reading[1].humidity, 10 * frame[1] + frame[2])
    /\ TenthsClose(reading[1].temperature, 10 * frame[3] + frame[4])
    /\ frame[2] % 5 = 0 => TenthsExact(reading[1].humidity, 10 * frame[1] + frame[2])
    /\ frame[4] % 5 = 0 => TenthsExact(reading[1].temperature, 10 * frame[3] + frame[4])

\* A frame whose bytes sum to more than 255 has been read and accepted.
C1_Witness ==
  /\ Delivered
  /\ ValidFrame(frame)
  /\ Sum4(frame) > 255
  /\ result = "Ok"

\* C2: a fully received frame with b4 # (b0+b1+b2+b3) mod 256 gives
\* ChecksumError and no Reading; a Reading exists only with an Ok result, after
\* the comparison of a frame whose checksum is right.
C2_BadChecksumRejected ==
  /\ (pc = "checksum" /\ result # "none" /\ ~ValidFrame(data)) =>
       (result = "ChecksumError" /\ reading = <<>>)
  /\ (Delivered /\ ~ValidFrame(frame)) => result = "ChecksumError"
  /\ result = "Ok" => (pc = "checksum" /\ ValidFrame(data))
  /\ reading # <<>> => result = "Ok"

\* A frame that is off by one in its checksum has been rejected.
C2_Witness ==
  /\ Delivered
  /\ frame[5] = (Sum4(frame) + 1) % 256
  /\ data = frame
  /\ result = "ChecksumError"
  /\ reading = <<>>

\* C3: a wait whose budget is spent returns Timeout, and nothing of the
\* protocol happens in or after that step: the failing step leaves the line's
\* mode and level, the frame, the bit position and the delays as they are, and
\* the one step that follows is the caller's, which neither samples nor
\* changes the line.
C3_TimeoutStopsRead ==
  /\ [][(pc \in WaitPcs /\ result = "none" /\ count = TIMEOUT_US
            /\ line' # Wanted(pc) /\ count' # count)
          => result' = "Timeout"]_vars
  /\ [][(result = "none" /\ result' = "Timeout")
          => (/\ pc \in WaitPcs
              /\ UNCHANGED <<pc, pin_mode, pin_out, data, byte_idx, bit, delays,
                             reading>>)]_vars
  /\ [][result = "Timeout"
          => (pc' = "sleep" /\ UNCHANGED <<pin_mode, pin_out, line, starts>>)]_vars
  /\ [](result = "Timeout" => (pin_mode = "input" /\ reading = <<>>))

\* A bit-end wait has timed out in the middle of the frame.
C3_Witness ==
  /\ result = "Timeout"
  /\ pc = "bit_low"
  /\ byte_idx = 2
  /\ count = TIMEOUT_US + 1

\* C4: right after a bit is classified, the bit stored is 0 for a high time of
\* exactly 20, 0 for any high time below 20, and 1 for 21 and more.
JustClassified == pc = "bit_low" /\ count = 0 /\ result = "none"

C4_BitBoundary ==
  JustClassified =>
    /\ high_time = 20 => BitOf(data[byte_idx + 1], bit) = 0
    /\ high_time < 20 => BitOf(data[byte_idx + 1], bit) = 0
    /\ high_time >= 21 => BitOf(data[byte_idx + 1], bit) = 1

\* A pulse measured as exactly 20 has been decoded as 0.
C4_Witness ==
  /\ JustClassified
  /\ high_time = 20
  /\ BitOf(data[byte_idx + 1], bit) = 0

\* C5: once the 40 bits are read the line is an output at high level: it is
\* so when the checksum is evaluated and when read returns Ok or
\* ChecksumError; parking happens after the last bit of the last byte.
C5_ParkedBeforeChecksum ==
  /\ pc = "checksum" => (pin_mode = "output" /\ pin_out = 1)
  /\ result \in {"Ok", "ChecksumError"} =>
       (pc = "checksum" /\ pin_mode = "output" /\ pin_out = 1)
  /\ pc = "park" =>
       (byte_idx = NUM_BYTES - 1 /\ bit = 0 /\ pin_mode = "input" /\ result = "none")

\* read has returned ChecksumError with the line parked.
C5_Witness ==
  /\ result = "ChecksumError"
  /\ pin_mode = "output"
  /\ pin_out = 1

\* C6: every read that is begun returns, whatever the line does, and what it
\* returns is one of Ok with a Reading, Timeout and ChecksumError.
C6_ReadReturns ==
  /\ [](pc = "hold_low" => <>(result # "none"))
  /\ [](result \in {"none", "Ok", "Timeout", "ChecksumError"})
  /\ [](result = "Ok" <=> reading # <<>>)

\* A read has returned although the line broke and stayed high.
C6_Witness ==
  /\ result = "Timeout"
  /\ stuck = "high"
  /\ line = 1

\* The place of the program in the sequence of phases of one read: 0 outside
\* read, then SendStart (1, 2), AwaitAckLow (3), AwaitAckHigh (4),
\* AwaitDataLow (5), ReadBit for byte 0..4 and bit 7..0 (three places a bit:
\* its start wait, its measurement, its end wait), the parking and Checksum.
BitNo == BITS_PER_BYTE * byte_idx + (BITS_PER_BYTE - 1 - bit)

Rank ==
  CASE pc = "hold_low"  -> 1
    [] pc = "hold_high" -> 2
    [] pc = "ack_low"   -> 3
    [] pc = "ack_high"  -> 4
    [] pc = "data_low"  -> 5
    [] pc = "bit_high"  -> 6 + 3 * BitNo
    [] pc = "measure"   -> 7 + 3 * BitNo
    [] pc = "bit_low"   -> 8 + 3 * BitNo
    [] pc = "park"      -> 6 + 3 * NUM_BYTES * BITS_PER_BYTE
    [] pc = "checksum"  -> 7 + 3 * NUM_BYTES * BITS_PER_BYTE
    [] OTHER            -> 0

\* C7: within a read the phases are passed in their order, one after the
\* other, none skipped, none entered again; read is entered at SendStart, which
\* emits the one start signal of the read; a failed read enters no phase any
\* more, Timeout comes from a waiting state only, and Ok from Checksum only.
C7_PhasesInOrder ==
  /\ [][(Rank > 0 /\ pc' # "sleep") => Rank' \in {Rank, Rank + 1}]_vars
  /\ [][(Rank = 0 /\ Rank' > 0) => (Rank' = 1 /\ starts' = starts + 1)]_vars
  /\ [][Rank > 0 => starts' = starts]_vars
  /\ [][result # "none" => pc' = "sleep"]_vars
  /\ [](starts = reads)
  /\ [](result = "Timeout" => pc \in WaitPcs)
  /\ [](result \in {"Ok", "ChecksumError"} => pc = "checksum")

\* A read has passed all the phases up to Checksum and is done.
C7_Witness ==
  /\ result = "Ok"
  /\ Rank = 7 + 3 * NUM_BYTES * BITS_PER_BYTE
  /\ starts = 1

\* The number n as a u32.
U32Of(n) == <<n \div HALF, n % HALF>>

\* C8: delay_1us returns at no poll before cycles_per_us cycles have passed
\* since it read start, and at the first poll after they have, also when the
\* counter has wrapped in between; the elapsed count it computes is the number
\* of cycles that have really passed.
C8_DelayToleratesWrap ==
  /\ dwt_pc = "done" =>
       (dwt_real >= cycles_per_us /\ dwt_elapsed = U32Of(dwt_real))
  /\ dwt_pc = "polling" =>
       (DelayOver(Elapsed(dwt_now, dwt_start), cycles_per_us)
          <=> dwt_real >= cycles_per_us)

\* A delay has returned after the counter wrapped from 2^32 - 1 to 0.
C8_Witness ==
  /\ dwt_pc = "done"
  /\ dwt_start = <<HALF - 1, HALF - 1 - 100>>
  /\ dwt_now[1] = 0
  /\ cycles_per_us = DwtDelay_new(CPU_FREQ_HZ)

\* C9: a wait returns Ok at the first sample that finds the level waited for,
\* having made one delay for each sample before it (none if the first sample
\* finds it); it makes at most 100 delays; it returns Timeout exactly when a
\* sample finds the wrong level after the 100 delays are spent.
C9_WaitBounded ==
  /\ [][(pc \in WaitPcs /\ result = "none") =>
          IF line' = Wanted(pc)
          THEN /\ result' = "none"
               /\ pc' # pc
               /\ delays' = count
          ELSE /\ pc' = pc
               /\ count' = count + 1
               /\ result' = "Timeout" <=> count = TIMEOUT_US
               /\ delays' = IF count = TIMEOUT_US THEN TIMEOUT_US ELSE count + 1]_vars
  /\ []((pc \in WaitPcs /\ count > 0) => (delays <= TIMEOUT_US /\ delays <= count))
  /\ [](result = "Timeout" =>
          (count = TIMEOUT_US + 1 /\ delays = TIMEOUT_US /\ line # Wanted(pc)))

\* The line never went low after the switch to input: Timeout in the ack-low
\* wait, after 100 delays.
C9_Witness ==
  /\ result = "Timeout"
  /\ pc = "ack_low"
  /\ delays = TIMEOUT_US
  /\ line = 1

\* C10: high_time is between 0 and 200 in every state, the measurement loop
\* makes as many delays as it counts, and at 200 the loop ends whatever the
\* line does.
C10_MeasureCapped ==
  /\ [](high_time \in 0..HIGH_CAP)
  /\ []((pc = "measure" /\ high_time > 0) => delays = high_time)
  /\ [](JustClassified => (delays = high_time /\ delays <= HIGH_CAP))
  /\ [][(pc = "measure" /\ high_time = HIGH_CAP) => pc' = "bit_low"]_vars

\* A measurement has ended at the cap with the line still high.
C10_Witness ==
  /\ JustClassified
  /\ high_time = HIGH_CAP
  /\ delays = HIGH_CAP
  /\ line = 1

\* The weight of bit n of a byte, 1 << n.
BitWeight == [n \in 0..7 |-> Pow2(n)]

\* C11: bit 7-j of byte k is what the (8k+j+1)-th pulse was classified as, and
\* 0 as long as that pulse has not been classified; every pulse classified so
\* far has its place; the parking is reached with exactly 40 pulses in 5 bytes.
C11_MsbFirst ==
  /\ \A k \in 0..(NUM_BYTES - 1), j \in 0..(BITS_PER_BYTE - 1) :
       (data[k + 1] \div BitWeight[7 - j]) % 2 =
         IF 8 * k + j + 1 <= Len(pulses) THEN pulses[8 * k + j + 1] ELSE 0
  /\ \A i \in 1..NUM_BYTES : data[i] \in 0..255
  /\ Len(pulses) <= 40
  /\ pc \in {"bit_high", "measure"} => Len(pulses) = 8 * byte_idx + (7 - bit)
  /\ pc = "bit_low" => Len(pulses) = 8 * byte_idx + (7 - bit) + 1
  /\ pc \in {"park", "checksum"} => Len(pulses) = 40

\* The 40 pulses of a frame with bytes of mixed bits have been stored.
C11_Witness ==
  /\ pc = "checksum"
  /\ Len(pulses) = 40
  /\ data = <<37, 9, 129, 13, 188>>
  /\ pulses[1] = 0 /\ pulses[3] = 1 /\ pulses[8] = 1 /\ pulses[40] = 0

\* The places of the program at which the line is sampled.
SamplePcs == WaitPcs \cup {"measure"}

\* C12: in every read the line is sampled only after, in this order, output
\* mode and low with 20 ms asked of the timer (at least 18 ms), high with 40 us
\* asked of the timer (within 20..40 us), and input mode.
C12_StartSignal ==
  /\ [](pc = "hold_low" =>
          /\ pin_mode = "output" /\ pin_out = 0
          /\ timer = 20 * 1000 /\ timer >= 18 * 1000)
  /\ [](pc = "hold_high" =>
          /\ pin_mode = "output" /\ pin_out = 1
          /\ timer = 40 /\ timer \in 20..40)
  /\ [](pc \in SamplePcs /\ result = "none" => pin_mode = "input" /\ timer = 0)
  /\ [][pc' = "hold_low" /\ pc # "hold_low" => pc = "loop_top"]_vars
  /\ [][pc' = "hold_high" /\ pc # "hold_high" => pc = "hold_low"]_vars
  /\ [][pc' \in SamplePcs /\ pc \notin SamplePcs =>
          /\ pc = "hold_high" /\ pc' = "ack_low"
          /\ pin_mode = "output" /\ pin_mode' = "input"
          /\ line' = line]_vars

\* The second read is about to sample the line for the first time.
C12_Witness ==
  /\ pc = "ack_low" /\ count = 0 /\ result = "none"
  /\ pin_mode = "input" /\ pin_out = 1
  /\ reads = 2 /\ starts = 2

\* C13: when read returns Timeout the line is an input, as the failing wait
\* had it, and it stays one until the next read begins; the line is made an
\* output only by the start of a read and by the parking, and the parking
\* runs only when 40 pulses have been classified and the last wait is over.
C13_TimeoutLeavesInput ==
  /\ [](result = "Timeout" => pin_mode = "input" /\ pc \in WaitPcs)
  /\ [][result' = "Timeout" => UNCHANGED <<pin_mode, pin_out>>]_vars
  /\ [][result = "Timeout" \/ pc = "sleep" => UNCHANGED <<pin_mode, pin_out>>]_vars
  /\ [][pin_mode = "input" /\ pin_mode' = "output" =>
          \/ pc = "loop_top" /\ pc' = "hold_low"
          \/ /\ pc = "park" /\ result = "none"
             /\ Len(pulses) = NUM_BYTES * BITS_PER_BYTE
             /\ pin_out' = 1]_vars

\* The caller sleeps after a Timeout, the line still an input.
C13_Witness ==
  /\ pc = "sleep"
  /\ pin_mode = "input"
  /\ result = "none"

\* The polling loops of one read that are over: the edge waits and the
\* measurements.
WaitsDone ==
  CASE pc = "ack_low"   -> 0
    [] pc = "ack_high"  -> 1
    [] pc = "data_low"  -> 2
    [] pc = "bit_high"  -> 3 + 2 * BitNo
    [] pc = "measure"   -> 4 + 2 * BitNo
    [] pc = "bit_low"   -> 4 + 2 * BitNo
    [] pc \in {"park", "checksum"} -> 3 + 2 * NUM_BYTES * BITS_PER_BYTE
    [] OTHER            -> 0

MeasuresDone ==
  CASE pc \in {"bit_high", "measure"} -> BitNo
    [] pc = "bit_low"   -> BitNo + 1
    [] pc \in {"park", "checksum"} -> NUM_BYTES * BITS_PER_BYTE
    [] OTHER            -> 0

\* The most delays the loop at hand may make, and those it has made.
LoopCap == IF pc = "measure" THEN HIGH_CAP ELSE TIMEOUT_US

LoopDelays ==
  CASE pc \in WaitPcs  -> DelaysSoFar(count = 0)
    [] pc = "measure"  -> DelaysSoFar(high_time = 0)
    [] OTHER           -> 0

\* C14: a read makes at most 3 * 100 + 40 * (100 + 200 + 100) = 16300 delays:
\* it runs each of its loops once and in their order, 3 + 2 * 40 waits and 40
\* measurements, a wait makes at most 100 delays and a measurement at most
\* 200, one delay a step, so that the caps of the loops that are over and the
\* delays of the loop at hand never add up to more than 16300.
C14_DelayBudget ==
  /\ [](LoopDelays <= LoopCap)
  /\ [](TIMEOUT_US * WaitsDone + HIGH_CAP * MeasuresDone + LoopDelays
          <= 3 * 100 + 40 * (100 + 200 + 100))
  /\ [](WaitsDone <= 3 + 2 * 40 /\ MeasuresDone <= 40)
  /\ [][(pc \in SamplePcs /\ result = "none" /\ pc' \in SamplePcs) =>
          (\/ (/\ WaitsDone' = WaitsDone
               /\ MeasuresDone' = MeasuresDone
               /\ LoopDelays' \in {LoopDelays, LoopDelays + 1})
           \/ (/\ WaitsDone' + MeasuresDone' = WaitsDone + MeasuresDone + 1
               /\ LoopDelays' = 0
               /\ delays' = LoopDelays))]_vars
  /\ [][pc \notin SamplePcs \/ result # "none" => delays' \in {0, delays}]_vars

\* The last wait of the last bit has made its 100th delay: with the caps of
\* the 122 loops before it the budget of 16300 is reached.
C14_Witness ==
  /\ pc = "bit_low" /\ byte_idx = NUM_BYTES - 1 /\ bit = 0
  /\ count = TIMEOUT_US /\ delays = TIMEOUT_US
  /\ result = "none"
  /\ TIMEOUT_US * WaitsDone + HIGH_CAP * MeasuresDone + LoopDelays = 16300

\* C15: ChecksumError is returned only with the 3 + 80 waits passed, the 40
\* pulses stored and a checksum that does not match; Timeout only from a wait
\* that has used up its budget without seeing its level; a call returns once,
\* one result, and a Reading with Ok only, never with an error.
C15_ErrorKindExact ==
  /\ [](result = "ChecksumError" =>
          /\ pc = "checksum"
          /\ WaitsDone = 3 + 2 * 40 /\ MeasuresDone = 40 /\ Len(pulses) = 40
          /\ (data[1] + data[2] + data[3] + data[4]) % 256 # data[5])
  /\ [](result = "Timeout" =>
          /\ pc \in WaitPcs
          /\ count = TIMEOUT_US + 1
          /\ line # Wanted(pc))
  /\ [](result = "Ok" =>
          /\ Len(pulses) = 40
          /\ (data[1] + data[2] + data[3] + data[4]) % 256 = data[5])
  /\ [](result \in {"ChecksumError", "Timeout"} => reading = <<>>)
  /\ [][result # "none" => result' = "none" /\ pc' = "sleep"]_vars
  /\ [][result' # "none" /\ pc \in WaitPcs => result' \in {"none", "Timeout"}]_vars

\* ChecksumError for a frame received in full whose last byte is off by 128.
C15_Witness ==
  /\ result = "ChecksumError"
  /\ Len(pulses) = 40
  /\ WaitsDone = 3 + 2 * 40
  /\ data = <<37, 9, 129, 13, 60>>

(***************************************************************************)
(* read with every delay_1us call run pass by pass, for clocks so slow     *)
(* that cycles_per_us is 0 or 1                                            *)
(***************************************************************************)
\* Clock frequencies just below 1 MHz and at 1 MHz.
SlowFreqs == {HZ_PER_MHZ - 1, HZ_PER_MHZ}

\* The counter value a delay_1us call of a slow clock finds: the last one
\* before the wrap, so that any cycle that passes wraps the counter.
SlowStarts == {U32Max}

\* main.rs:55 with a clock that slow: read called, its start signal begun.
ReadCallSlow == ReadCallOf(LiveFrames, SlowReads)

InitSlow ==
  /\ InitDelay
  /\ cycles_per_us \in {DwtDelay_new(f) : f \in SlowFreqs}
  /\ dwt_now \in SlowStarts

\* dwt_delay.rs:19, called from dht11.rs:74, 138, 150.
DelayEnter ==
  /\ dwt_pc = "idle"
  /\ dwt_start' = dwt_now
  /\ dwt_real' = 0
  /\ dwt_pc' = "polling"
  /\ UNCHANGED <<cycles_per_us, dwt_now, dwt_elapsed>>

\* dht11.rs:133-138, 145-150: a pass of a wait up to its call of delay_1us.
SlowWaitSpin == WaitSpinDrv /\ DelayEnter

\* dht11.rs:73-75: a pass of the measurement up to its call of delay_1us.
SlowMeasureSpin == MeasureSpinDrv /\ DelayEnter

\* dwt_delay.rs:25: break; the locals of delay_1us are gone, and the counter
\* is wherever it is when the next call comes.
SlowDelayReturn ==
  /\ dwt_pc = "done"
  /\ dwt_pc' = "idle"
  /\ dwt_start' = <<0, 0>>
  /\ dwt_elapsed' = <<0, 0>>
  /\ dwt_real' = 0
  /\ dwt_now' \in SlowStarts
  /\ UNCHANGED <<drv, cycles_per_us>>

\* No delay_1us call is running: main and read go on.
DelayIdle == dwt_pc = "idle"

NextSlow ==
  \/ DelayIdle /\ MainStabilised
  \/ DelayIdle /\ ReadCallSlow
  \/ DelayIdle /\ ReadRelease
  \/ DelayIdle /\ ReadListen
  \/ DelayIdle /\ WaitTimeout
  \/ DelayIdle /\ WaitOk
  \/ DelayIdle /\ MeasureEnd
  \/ DelayIdle /\ Park
  \/ DelayIdle /\ ReadChecksumError
  \/ DelayIdle /\ ReadOk
  \/ DelayIdle /\ MainMatch
  \/ DelayIdle /\ MainWake
  \/ SlowWaitSpin
  \/ SlowMeasureSpin
  \/ DwtTick
  \/ DelayPoll
  \/ SlowDelayReturn

SpecSlow == InitSlow /\ [][NextSlow]_vars

ReadState ==
  <<pin_mode, pin_out, result, reading, count, high_time, byte_idx, bit, data,
    pulses, cycles_per_us>>

\* Byte k (0..4) of the frame that a sequence of 40 classified pulses makes.
ByteOfPulses(p, k) ==
  128 * p[8 * k + 1] + 64 * p[8 * k + 2] + 32 * p[8 * k + 3] + 16 * p[8 * k + 4]
    + 8 * p[8 * k + 5] + 4 * p[8 * k + 6] + 2 * p[8 * k + 7] + p[8 * k + 8]

FrameOfPulses(p) == [i \in 1..NUM_BYTES |-> ByteOfPulses(p, i - 1)]

\* C17: every read, the first as well as one that follows an Ok, a Timeout or
\* a ChecksumError, sends its start signal from the same state, with the frame
\* all zeros until the first bit is stored, and what it returns is a function
\* of what it has sampled itself: Timeout for a wait that saw the wrong level
\* through its whole budget, and else the checksum test and the Reading of the
\* 40 pulses it classified.
C17_NoStateKept ==
  /\ pc = "hold_low" =>
       ReadState = <<"output", 0, "none", <<>>, 0, 0, 0, BITS_PER_BYTE - 1,
                     ZeroData, <<>>, DwtDelay_new(CPU_FREQ_HZ)>>
  /\ Rank \in 1..6 => (data = ZeroData /\ pulses = <<>>)
  /\ result = "Timeout" => pc \in WaitPcs /\ line # Wanted(pc) /\ reading = <<>>
  /\ result = "ChecksumError" =>
       /\ Len(pulses) = 40
       /\ ChecksumFails(FrameOfPulses(pulses))
       /\ reading = <<>>
  /\ result = "Ok" =>
       /\ Len(pulses) = 40
       /\ ~ChecksumFails(FrameOfPulses(pulses))
       /\ reading = <<Parse(FrameOfPulses(pulses))>>

\* The second read begins after a first one that timed out waiting for a low
\* level: the last sample taken was high.
C17_Witness ==
  /\ pc = "hold_low"
  /\ reads = 2
  /\ line = 1

\* The steps that call set_low or set_high: the start signal, its release
\* and the parking.
SetsLevel ==
  \/ pc = "loop_top" /\ pc' = "hold_low"
  \/ pc = "hold_low" /\ pc' = "hold_high"
  \/ pc = "park" /\ pc' = "checksum"

\* C18: from new on, the level is set only with the line an output, and the
\* line is sampled only with it an input; so it is in a read that follows a
\* Timeout, which finds the line an input and makes it an output before it
\* sets it low.
C18_ModeMatchesUse ==
  /\ [][SetsLevel => pin_mode' = "output"]_vars
  /\ [][pin_out' # pin_out => (SetsLevel /\ pin_mode' = "output")]_vars
  /\ [](pc \in {"stabilise", "hold_low", "hold_high", "checksum"} => pin_mode = "output")
  /\ [][line' # line => (pin_mode = "input" /\ pin_mode' = "input" /\ pc \in SamplePcs)]_vars
  /\ []((pc \in SamplePcs \/ pc = "park") => pin_mode = "input")
  /\ [][(result = "Timeout" /\ pin_mode = "input") => pin_out' = pin_out]_vars

\* The second read, which follows a Timeout, has released the start signal:
\* the line is an output at high level.
C18_Witness ==
  /\ pc = "hold_high"
  /\ reads = 2
  /\ line = 1
  /\ pin_mode = "output"
  /\ pin_out = 1

\* C19: a measurement that reaches 200 with the line high stores a 1 and
\* goes to the bit-end wait; that wait is left for the next bit only by a
\* sample that finds the line low; with the line high to the end of its budget
\* read returns Timeout, without a Reading, and a line that stays high from a
\* measurement on always ends so.
C19_LongHighTimesOut ==
  /\ [][(pc = "measure" /\ high_time = HIGH_CAP) =>
          /\ pc' = "bit_low"
          /\ pulses' = Append(pulses, 1)
          /\ BitOf(data'[byte_idx + 1], bit) = 1]_vars
  /\ [][(pc = "bit_low" /\ result = "none" /\ pc' # "bit_low") =>
          (line' = 0 /\ result' = "none")]_vars
  /\ [][(pc = "bit_low" /\ result = "none" /\ result' # "none") =>
          /\ result' = "Timeout" /\ line' = 1 /\ count = TIMEOUT_US
          /\ reading' = <<>>
          /\ UNCHANGED <<pulses, data, pin_mode, pin_out>>]_vars
  /\ [](stuck = "high" =>
          /\ pc \in {"measure", "bit_low"}
          /\ result \in {"none", "Timeout"}
          /\ reading = <<>>)
  /\ (stuck = "high") ~>
       (result = "Timeout" /\ pc = "bit_low" /\ line = 1 /\ pulses[Len(pulses)] = 1)

\* A pulse of a 0 bit never ended: it was stored as a 1 and read returned
\* Timeout from the bit-end wait.
C19_Witness ==
  /\ result = "Timeout"
  /\ pc = "bit_low"
  /\ stuck = "high"
  /\ FrameBit = 0
  /\ pulses[Len(pulses)] = 1
  /\ reading = <<>>

\* C20: a read is begun from the top of the loop only, and the top of the
\* loop is reached only from a 2 s wait that has run out: the stabilisation
\* wait before the first read, the wait at the end of the loop body after
\* every other; whatever a read returns, the wait follows it and the loop
\* comes back to its top.
C20_ReadsSpaced ==
  /\ [](pc \in {"stabilise", "sleep"} => timer >= 2 * 1000 * 1000)
  /\ [](pc = "stabilise" => reads = 0)
  /\ [](reads = 0 => pc \in {"stabilise", "loop_top"})
  /\ [][(pc' = "hold_low" /\ pc # "hold_low") => pc = "loop_top"]_vars
  /\ [][(pc' = "loop_top" /\ pc # "loop_top") =>
          /\ pc \in {"stabilise", "sleep"}
          /\ timer >= 2 * 1000 * 1000
          /\ reads' = reads]_vars
  /\ [][pc = "stabilise" => pc' = "loop_top"]_vars
  /\ [][result # "none" => (pc' = "sleep" /\ timer' >= 2 * 1000 * 1000)]_vars
  /\ [][pc' = "sleep" => result \in {"Ok", "Timeout", "ChecksumError"}]_vars
  /\ \A r \in {"Ok", "Timeout", "ChecksumError"} : (result = r) ~> (pc = "loop_top")

\* The second read is begun, after a first one that failed with Timeout and
\* the 2 s wait that followed it.
C20_Witness ==
  /\ pc = "hold_low"
  /\ reads = 2
  /\ starts = 2
  /\ pin_out = 0
  /\ line = 1
  /\ timer = START_LOW_US

====
